---- MODULE Spec2Model ----
(***************************************************************************)
(* The edit-state engine of 4ndr0image: the useHistory hook (history      *)
(* stack, cursor, object-URL lifecycle), the asynchronous operations of   *)
(* App.tsx that feed it (remote edits, crop, worker adjustment previews,  *)
(* session restore) and the closures those operations capture.            *)
(*                                                                         *)
(* React closures.  A handler invoked by a user event runs with the       *)
(* values of the latest render, so it reads the state variables directly. *)
(* The continuation of an async handler keeps the closure of the render   *)
(* in which the handler was started: the captured currentIndex is stored  *)
(* with the pending operation (field idx).  The state updaters            *)
(* setHistory(prev => ...) and setCurrentIndex(prev => ...) receive the   *)
(* latest state as prev.                                                   *)
(***************************************************************************)
EXTENDS Integers, Sequences, FiniteSets, TLC

\* ---- bounds of the model ----
MaxUrls == 3      \* createObjectURL calls made for history entries
MaxStored == 1    \* entries of the session record found at startup
MaxReq == 2       \* largest value of adjustmentRequestIdRef
MaxRemote == 1    \* remote edits pending at the same time
MaxCrop == 1      \* crops whose source image is still loading
\* the same three limits where adjustment requests overlap (SpecWorker)
WorkerMaxReq == 3
WorkerMaxRemote == 1
WorkerMaxCrop == 1
\* and where remote edits overlap (SpecRemote)
RemoteMaxReq == 2
RemoteMaxRemote == 2
RemoteMaxCrop == 1
\* and where the session record holds several entries (SpecSession)
SessionMaxStored == 2
SessionMaxReq == 2
SessionMaxRemote == 1
SessionMaxCrop == 1
\* the largest requestId of a message posted to the worker directly (SpecApi)
ApiMaxId == 1
MaxViewEvents == 2
SaveMaxViewEvents == 2
\* the sequence numbers of the preview sessions (SpecAdjust)
AdjustMaxReq == 3
\* entries of the session record where the filter drops some of them (SpecRestore)
RestoreMaxStored == 3

VARIABLES
  history,                  \* useHistory: HistoryEntry[]
  currentIndex,             \* useHistory: cursor
  created,                  \* number of URL.createObjectURL calls for entries
  revoked,                  \* url -> number of URL.revokeObjectURL calls
  isLoading,                \* App: busy indicator
  error,                    \* App: error state ("none" = null)
  isPreviewingAdjustments,  \* App
  adjustmentParams,         \* App: 0 = all seven intensities zero
  adjustmentRequestIdRef,   \* App: latest issued sequence number
  sending,                  \* sendToWorker calls suspended at their awaits
  workerQueue,              \* posted requests, in posting order
  lastCommitted,            \* sequence number of the last response put into history
  remotePending,            \* handleGeminiRequest calls awaiting requestFn
  cropPending,              \* handleApplyCrop calls awaiting image load
  hasCheckedSession,        \* App
  sessionToRestore,         \* App
  stored,                   \* blob store: TRUE when a record is held under KEY
  zoomPanState,             \* useZoomPan: scale, offsetX, offsetY
  isPanningRef,             \* useZoomPan
  lastMousePosRef,          \* useZoomPan: the pan anchor
  viewEvents,               \* number of wheel and move events handled
  activeTab,                \* App
  displayHotspot,           \* App
  editHotspot,              \* App
  timers,                   \* useAutoSave: pending timeouts, id -> the render they captured
  timeoutRef,               \* useAutoSave: id of the timeout set last (0 = null)
  written,                  \* what the last saveSession call did to the store
  workerData,               \* worker: imageData.data of the message being processed
  workerParams,             \* worker: params of the message being processed
  workerResult,             \* worker: resultImageData.data of the response posted
  fileContent,              \* entry id -> the base and params its file was computed from
  posted,                   \* requestId -> the base entry and the params of the request
  preview,                  \* the adjustment preview session: its base, the resets
  lastOp                    \* the handler that made the last step

vars == <<history, currentIndex, created, revoked, isLoading, error,
          isPreviewingAdjustments, adjustmentParams, adjustmentRequestIdRef,
          sending, workerQueue, lastCommitted, remotePending, cropPending,
          hasCheckedSession, sessionToRestore, stored, zoomPanState, isPanningRef,
          lastMousePosRef, viewEvents, activeTab, displayHotspot, editHotspot, timers,
          timeoutRef, written, workerData, workerParams, workerResult, fileContent,
          posted, preview, lastOp>>

histVars == <<history, currentIndex, created, revoked>>
workerVars == <<adjustmentRequestIdRef, sending, workerQueue, lastCommitted>>
sessionVars == <<hasCheckedSession, sessionToRestore, stored>>
zoomVars == <<zoomPanState, isPanningRef, lastMousePosRef, viewEvents>>
viewVars == <<zoomPanState, isPanningRef, lastMousePosRef, viewEvents, activeTab,
              displayHotspot, editHotspot>>
saveVars == <<timers, timeoutRef, written>>
pixelVars == <<workerData, workerParams, workerResult>>
trackVars == <<fileContent, posted, preview>>

\* ---- values ----
NoSession == [wellFormed |-> FALSE, history |-> <<>>, currentIndex |-> -1, present |-> FALSE]

\* useState<{ x: number, y: number } | null>(null)
NoHotspot == <<>>

\* setEditHotspot(null); setDisplayHotspot(null)
resetHotspots == displayHotspot' = NoHotspot /\ editHotspot' = NoHotspot

\* JavaScript numbers are modelled as exact fractions n/d with d > 0, kept in
\* lowest terms; the rounding of floating-point arithmetic is not modelled.
RECURSIVE GCD(_, _)
GCD(a, b) == IF b = 0 THEN a ELSE GCD(b, a % b)

Abs(a) == IF a < 0 THEN -a ELSE a

Rat(n, d) ==
  LET g == GCD(Abs(n), Abs(d))
      s == IF d < 0 THEN -1 ELSE 1
  IN  [n |-> (s * n) \div g, d |-> (s * d) \div g]

Num(i) == [n |-> i, d |-> 1]

\* sums over the least common denominator and products with the common
\* factors taken out first, so that no intermediate value is larger than needed
RatAdd(a, b) ==
  LET g == GCD(a.d, b.d)
  IN  Rat(a.n * (b.d \div g) + b.n * (a.d \div g), (a.d \div g) * b.d)
RatSub(a, b) == RatAdd(a, [n |-> -b.n, d |-> b.d])
RatMul(a, b) ==
  LET g1 == GCD(Abs(a.n), b.d)
      g2 == GCD(Abs(b.n), a.d)
  IN  Rat((a.n \div g1) * (b.n \div g2), (a.d \div g2) * (b.d \div g1))
RatDiv(a, b) == RatMul(a, Rat(b.d, b.n))
RatLt(a, b) == a.n * b.d < b.n * a.d
RatMin(a, b) == IF RatLt(b, a) THEN b ELSE a
RatMax(a, b) == IF RatLt(a, b) THEN b ELSE a

\* Math.round(x): the nearest integer, a half rounded up
MathRound(x) == (2 * x.n + x.d) \div (2 * x.d)

MIN_SCALE == Rat(1, 5)
MAX_SCALE == Num(5)

\* useState<ZoomPanState>({ scale: 1, offsetX: 0, offsetY: 0 })
InitialZoomPanState == [scale |-> Num(1), offsetX |-> Num(0), offsetY |-> Num(0)]

\* saveSession(null)
NullSnapshot == [present |-> FALSE, history |-> <<>>]

\* a timeout set by the effect: its id and the values its callback closed over
Timer(id, h, idx, zps) == [id |-> id, history |-> h, currentIndex |-> idx, zoomPanState |-> zps]

\* no preview session yet and no reset or clear of the stack: base is what the
\* current snapshot showed when the session began, resetRef and clearRef the
\* value of adjustmentRequestIdRef at the last reset and the last clear
NoPreview == [base |-> 0, resetRef |-> 0, clearRef |-> 0]

\* AdjustmentParams with every intensity zero (resetCommonState)
IdentityParams ==
  [brightness |-> 0, contrast |-> 0, saturation |-> 0, exposure |-> 0,
   highlights |-> 0, shadows |-> 0, vibrance |-> 0]

\* a File is modelled by its size
EmptyFile == 0
ImageFile == 1

Min(a, b) == IF a < b THEN a ELSE b
Max(a, b) == IF a > b THEN a ELSE b

\* Array.prototype.slice(start, end) on a 0-based array
slice(arr, start, end) ==
  LET n == Len(arr)
      s == IF start < 0 THEN Max(n + start, 0) ELSE Min(start, n)
      e == IF end < 0 THEN Max(n + end, 0) ELSE Min(end, n)
  IN  IF s >= e THEN <<>> ELSE SubSeq(arr, s + 1, e)

\* URL.revokeObjectURL(url)
revokeObjectURL(rv, url) == [rv EXCEPT ![url] = @ + 1]

revokeNone(rv, entries) == rv
\* entries.forEach(entry => URL.revokeObjectURL(entry.thumbnailUrl))
RECURSIVE revokeAll(_, _)
revokeAll(rv, entries) ==
  IF entries = <<>> THEN rv
  ELSE revokeAll(revokeObjectURL(rv, Head(entries).thumbnailUrl), Tail(entries))

\* history[currentIndex] ?? null, as a test for non-null
hasCurrentEntry(h, idx) == idx >= 0 /\ idx < Len(h)

invalidFileAcceptEmpty(f) == f < 0
\* !(newImageFile instanceof File) || newImageFile.size === 0
invalidFile(f) == f <= 0

canUndoOffByOne(idx) == idx >= 0
canUndo(idx) == idx > 0

canRedo(h, idx) == idx < Len(h) - 1

isStaleNever(requestId, latest) == FALSE
\* event.data.requestId !== adjustmentRequestIdRef.current
isStale(requestId, latest) == requestId # latest

staleLoadingKept(loading) == loading
\* setIsLoading(false) of the stale branch
staleLoading(loading) == FALSE

stateToReplaceFirst(prevHistory) == prevHistory[1]
\* const stateToReplace = prevHistory[prevHistory.length - 1]
stateToReplace(prevHistory) == prevHistory[Len(prevHistory)]

HistState(h, idx, cr, rv) == [history |-> h, currentIndex |-> idx, created |-> cr, revoked |-> rv]

\* addToHistory(newImageFile, replace), run in a closure whose currentIndex
\* is closureIndex, on the latest state (prevHistory, prevIndex)
addToHistory(prevHistory, prevIndex, closureIndex, newImageFile, replace, cr, rv) ==
  IF invalidFile(newImageFile)
  THEN HistState(prevHistory, prevIndex, cr, rv)
  ELSE
    LET newEntry == [id |-> SessionMaxStored + cr + 1, file |-> newImageFile, thumbnailUrl |-> cr + 1]
        rv1 == IF replace /\ Len(prevHistory) > 0
               THEN revokeObjectURL(rv, stateToReplace(prevHistory).thumbnailUrl)
               ELSE rv
        discardedRedoEntries == slice(prevHistory, closureIndex + 1, Len(prevHistory))
        rv2 == revokeAll(rv1, discardedRedoEntries)
        newHistoryBase == slice(prevHistory, 0, closureIndex + 1)
        newHistory == IF replace
                      THEN Append(slice(newHistoryBase, 0, -1), newEntry)
                      ELSE Append(newHistoryBase, newEntry)
    IN  HistState(newHistory, IF replace THEN prevIndex ELSE prevIndex + 1, cr + 1, rv2)

resetHistoryNoRelease(prevHistory, cr, rv) == HistState(<<>>, -1, cr, rv)
\* resetHistory()
resetHistory(prevHistory, cr, rv) == HistState(<<>>, -1, cr, revokeAll(rv, prevHistory))

\* setHistoryState({history, currentIndex})
setHistoryState(prevHistory, newHistory, newIndex, cr, rv) ==
  HistState(newHistory, newIndex, cr, revokeAll(rv, prevHistory))

SetHist(s) ==
  /\ history' = s.history
  /\ currentIndex' = s.currentIndex
  /\ created' = s.created
  /\ revoked' = s.revoked

Op(name, arg, flag) == [op |-> name, arg |-> arg, flag |-> flag]

\* ---- what renderContent shows ----
ModalShown == hasCheckedSession /\ sessionToRestore.present
ErrorShown == hasCheckedSession /\ ~sessionToRestore.present /\ error # "none"
StartShown == /\ hasCheckedSession /\ ~sessionToRestore.present /\ error = "none"
              /\ ~hasCurrentEntry(history, currentIndex)
EditorShown == /\ hasCheckedSession /\ ~sessionToRestore.present /\ error = "none"
               /\ hasCurrentEntry(history, currentIndex)

\* ---- the records db.loadSession() may return at startup ----
\* a record that fails the check of checkSession (history not a list, or
\* currentIndex not a number)
MalformedSession == [wellFormed |-> FALSE, history |-> <<>>, currentIndex |-> 0, present |-> TRUE]

StoredEntries(n) == [1..n -> {EmptyFile, ImageFile}]

\* records a previous run saved: n entries and the cursor of that run, which
\* useAutoSave writes as it is (a run can end with the cursor at -1 or at the
\* length of a non-empty history); the bytes of an entry may have been lost
\* (an empty File)
SavedSessions(maxStored) ==
  {MalformedSession}
  \cup UNION {
        {[wellFormed |-> TRUE,
          history |-> [i \in 1..n |-> [id |-> i, file |-> fs[i]]],
          currentIndex |-> c,
          present |-> TRUE] : fs \in StoredEntries(n), c \in -1..n}
        : n \in 1..maxStored}

InitApp ==
  /\ history = <<>>
  /\ currentIndex = -1
  /\ created = 0
  /\ revoked = [u \in 1..MaxUrls |-> 0]
  /\ isLoading = FALSE
  /\ error = "none"
  /\ isPreviewingAdjustments = FALSE
  /\ adjustmentParams = 0
  /\ adjustmentRequestIdRef = 0
  /\ sending = {}
  /\ workerQueue = <<>>
  /\ lastCommitted = 0
  /\ remotePending = <<>>
  /\ cropPending = <<>>
  /\ hasCheckedSession = FALSE
  /\ sessionToRestore = NoSession
  /\ stored \in BOOLEAN
  /\ zoomPanState = InitialZoomPanState
  /\ isPanningRef = FALSE
  /\ lastMousePosRef = <<0, 0>>
  /\ viewEvents = 0
  /\ activeTab = "retouch"
  /\ displayHotspot = NoHotspot
  /\ editHotspot = NoHotspot
  /\ timers = {Timer(1, <<>>, -1, InitialZoomPanState)}
  /\ timeoutRef = 1
  /\ written = [op |-> "none", session |-> NullSnapshot, before |-> FALSE]
  /\ fileContent = <<>>
  /\ posted = <<>>
  /\ preview = NoPreview
  /\ lastOp = Op("init", 0, FALSE)

\* the application after construction; the worker has received no message
Init ==
  /\ InitApp
  /\ workerData = <<>>
  /\ workerParams = IdentityParams
  /\ workerResult = <<>>

\* ---- startup: the session check (App.tsx, checkSession) ----
validSessionAny(savedSession) == TRUE
\* savedSession.history && Array.isArray(savedSession.history) &&
\* typeof savedSession.currentIndex === 'number'
validSession(savedSession) == savedSession.wellFormed

\* db.loadSession() returns null when there is no record and when the read
\* throws; the step records what it returned and whether the read went through
CheckSession(maxStored) ==
  /\ ~hasCheckedSession
  /\ \E readOk \in BOOLEAN : \E record \in SavedSessions(maxStored) :
       LET savedSession == IF readOk /\ stored THEN record ELSE NoSession
       IN  /\ IF savedSession.present /\ validSession(savedSession)
              THEN sessionToRestore' = savedSession /\ stored' = stored
              ELSE /\ sessionToRestore' = NoSession
                   /\ stored' = IF savedSession.present THEN FALSE ELSE stored
           /\ lastOp' = [op |-> "checkSession", arg |-> 0, flag |-> savedSession.present,
                         readOk |-> readOk, savedSession |-> savedSession]
  /\ hasCheckedSession' = TRUE
  /\ UNCHANGED <<viewVars, histVars, workerVars, isLoading, error, isPreviewingAdjustments,
                 adjustmentParams, remotePending, cropPending>>

validItemsKeepAll(items) == items
\* session.history.filter(item => item && item.file instanceof File && item.file.size > 0)
validItems(items) == SelectSeq(items, LAMBDA item : ~invalidFile(item.file))

\* .map(item => ({...item, thumbnailUrl: URL.createObjectURL(item.file)}))
withThumbnails(items, cr) ==
  [i \in 1..Len(items) |-> [id |-> items[i].id, file |-> items[i].file, thumbnailUrl |-> cr + i]]

\* !session || !Array.isArray(session.history)
invalidStructure(session) == ~session.present \/ ~session.wellFormed

\* handleRestoreSession(session)
handleRestoreSession(session) ==
  /\ LET valid == IF invalidStructure(session) THEN <<>> ELSE validItems(session.history)
         validHistory == withThumbnails(valid, created)
     IN  /\ created + Len(valid) <= MaxUrls
         /\ IF Len(validHistory) = 0
            THEN /\ SetHist(HistState(history, currentIndex, created, revoked))
                 /\ error' = "restore"
                 /\ stored' = FALSE
            ELSE /\ SetHist(setHistoryState(history, validHistory,
                                            Min(session.currentIndex, Len(validHistory) - 1),
                                            created + Len(valid), revoked))
                 /\ error' = error
                 /\ stored' = stored
         /\ lastOp' = [op |-> "restore", arg |-> Len(validHistory),
                       flag |-> Len(validHistory) > 0, session |-> session]
  /\ sessionToRestore' = NoSession
  /\ UNCHANGED <<viewVars, workerVars, isLoading, isPreviewingAdjustments, adjustmentParams,
                 remotePending, cropPending, hasCheckedSession>>

\* the Restore button of SessionRestoreModal
HandleRestoreSession ==
  /\ ModalShown
  /\ handleRestoreSession(sessionToRestore)

HandleDeclineRestore ==
  /\ ModalShown
  /\ stored' = FALSE
  /\ sessionToRestore' = NoSession
  /\ lastOp' = Op("declineRestore", 0, FALSE)
  /\ UNCHANGED <<viewVars, histVars, workerVars, isLoading, error, isPreviewingAdjustments,
                 adjustmentParams, remotePending, cropPending, hasCheckedSession>>

\* ---- uploads and resets ----
\* handleImageUpload(file): resetHistory(); addToHistory(file); resetCommonState()
HandleImageUpload ==
  /\ StartShown
  /\ created < MaxUrls
  /\ \E file \in {EmptyFile, ImageFile} :
       LET r == resetHistory(history, created, revoked)
           a == addToHistory(r.history, r.currentIndex, currentIndex, file, FALSE,
                             r.created, r.revoked)
       IN  /\ SetHist(a)
           /\ lastOp' = Op("upload", file, Len(history) > 0)
  /\ error' = "none"
  /\ adjustmentParams' = 0
  /\ activeTab' = "retouch"
  /\ resetHotspots
  /\ UNCHANGED <<zoomVars, workerVars, isLoading, isPreviewingAdjustments, remotePending,
                 cropPending, sessionVars>>

\* handleUploadNew: resetHistory(); resetCommonState()
HandleUploadNew ==
  /\ EditorShown
  /\ SetHist(resetHistory(history, created, revoked))
  /\ error' = "none"
  /\ adjustmentParams' = 0
  /\ lastOp' = Op("uploadNew", Len(history), FALSE)
  /\ resetHotspots
  /\ activeTab' = activeTab
  /\ UNCHANGED <<zoomVars, workerVars, isLoading, isPreviewingAdjustments, remotePending,
                 cropPending, sessionVars>>

goToHistoryInclusive(h, idx, index) == IF index >= 0 /\ index <= Len(h) THEN index ELSE idx
\* goToHistory(index)
goToHistory(h, idx, index) == IF index >= 0 /\ index < Len(h) THEN index ELSE idx

\* a thumbnail of HistoryPanel (shown when history.length > 1)
GoToHistory ==
  /\ EditorShown
  /\ Len(history) > 1
  /\ \E index \in 0..(Len(history) - 1) :
       /\ currentIndex' = goToHistory(history, currentIndex, index)
       /\ lastOp' = Op("goTo", index, FALSE)
  /\ UNCHANGED <<viewVars, history, created, revoked, workerVars, isLoading, error,
                 isPreviewingAdjustments, adjustmentParams, remotePending, cropPending,
                 sessionVars>>

\* handleReset (button disabled unless canUndo): goToHistory(0); resetCommonState()
HandleReset ==
  /\ EditorShown
  /\ canUndo(currentIndex)
  /\ currentIndex' = IF Len(history) > 0 THEN goToHistory(history, currentIndex, 0)
                     ELSE currentIndex
  /\ error' = "none"
  /\ adjustmentParams' = 0
  /\ lastOp' = Op("reset", 0, FALSE)
  /\ resetHotspots
  /\ activeTab' = activeTab
  /\ UNCHANGED <<zoomVars, history, created, revoked, workerVars, isLoading,
                 isPreviewingAdjustments, remotePending, cropPending, sessionVars>>

\* undo(): if (canUndo) setCurrentIndex(prev => prev - 1)
undo(idx) == IF canUndo(idx) THEN idx - 1 ELSE idx

\* redo(): if (canRedo) setCurrentIndex(prev => prev + 1)
redo(h, idx) == IF canRedo(h, idx) THEN idx + 1 ELSE idx

\* the Undo button (disabled unless canUndo)
Undo ==
  /\ EditorShown
  /\ canUndo(currentIndex)
  /\ currentIndex' = undo(currentIndex)
  /\ lastOp' = Op("undo", currentIndex, FALSE)
  /\ UNCHANGED <<viewVars, history, created, revoked, workerVars, isLoading, error,
                 isPreviewingAdjustments, adjustmentParams, remotePending, cropPending,
                 sessionVars>>

\* the Redo button (disabled unless canRedo)
Redo ==
  /\ EditorShown
  /\ canRedo(history, currentIndex)
  /\ currentIndex' = redo(history, currentIndex)
  /\ lastOp' = Op("redo", currentIndex, FALSE)
  /\ UNCHANGED <<viewVars, history, created, revoked, workerVars, isLoading, error,
                 isPreviewingAdjustments, adjustmentParams, remotePending, cropPending,
                 sessionVars>>

\* the "Try Again" button of the error screen: setError(null)
DismissError ==
  /\ ErrorShown
  /\ error' = "none"
  /\ lastOp' = Op("dismissError", 0, FALSE)
  /\ UNCHANGED <<viewVars, histVars, workerVars, isLoading, isPreviewingAdjustments,
                 adjustmentParams, remotePending, cropPending, sessionVars>>

RemoveAt(s, k) == SubSeq(s, 1, k - 1) \o SubSeq(s, k + 1, Len(s))

\* ---- remote edits (handleGenerate / handleApplyFilter -> handleGeminiRequest) ----
\* The controls that start a remote edit are disabled while isLoading.  The
\* call keeps processNewImage, hence addToHistory, of the render it started in.
\* handleGenerate ('retouch') returns early without an edit hotspot;
\* handleApplyFilter ('filter') does not need one.
HandleGeminiRequest(maxRemote) ==
  /\ EditorShown
  /\ ~isLoading
  /\ Len(remotePending) < maxRemote
  /\ \E operationName \in {"retouch", "filter"} :
       /\ operationName = "retouch" => editHotspot # NoHotspot
       /\ remotePending' =
            Append([k \in 1..Len(remotePending) |->
                      [remotePending[k] EXCEPT !.superseded = TRUE]],
                   [idx |-> currentIndex, superseded |-> FALSE,
                    operationName |-> operationName])
  /\ isLoading' = TRUE
  /\ error' = "none"
  /\ lastOp' = Op("remoteStart", currentIndex, FALSE)
  /\ UNCHANGED <<viewVars, histVars, workerVars, isPreviewingAdjustments, adjustmentParams,
                 cropPending, sessionVars>>

\* requestFn() resolves: dataURLtoFile, then processNewImage(newImageFile)
GeminiResolved ==
  \E k \in 1..Len(remotePending) : \E newImageFile \in {EmptyFile, ImageFile} :
    /\ invalidFile(newImageFile) \/ created < MaxUrls
    /\ SetHist(addToHistory(history, currentIndex, remotePending[k].idx, newImageFile,
                            FALSE, created, revoked))
    /\ isLoading' = FALSE
    /\ remotePending' = RemoveAt(remotePending, k)
    /\ lastOp' = Op("remoteResolved", newImageFile, remotePending[k].superseded)
    /\ IF remotePending[k].operationName = "retouch" THEN resetHotspots
       ELSE UNCHANGED <<displayHotspot, editHotspot>>
    /\ activeTab' = activeTab
    /\ UNCHANGED <<zoomVars, workerVars, error, isPreviewingAdjustments, adjustmentParams,
                   cropPending, sessionVars>>

remoteFailureSwallowed(err) == err
\* catch (err): setError(`Failed to ${operationName} the image. ...`)
remoteFailure(err) == "remote"

\* requestFn() rejects, or dataURLtoFile throws: catch, then finally
GeminiRejected ==
  \E k \in 1..Len(remotePending) :
    /\ error' = remoteFailure(error)
    /\ isLoading' = FALSE
    /\ remotePending' = RemoveAt(remotePending, k)
    /\ lastOp' = Op("remoteRejected", 0, remotePending[k].superseded)
    /\ UNCHANGED <<viewVars, histVars, workerVars, isPreviewingAdjustments, adjustmentParams,
                   cropPending, sessionVars>>

\* ---- crop (handleApplyCrop) ----
\* the source image loads asynchronously; onload keeps the addToHistory of
\* the render in which Apply Crop was clicked
HandleApplyCrop(maxCrop) ==
  /\ EditorShown
  /\ ~isLoading
  /\ Len(cropPending) < maxCrop
  /\ cropPending' = Append(cropPending, [idx |-> currentIndex])
  /\ lastOp' = Op("cropStart", currentIndex, FALSE)
  /\ UNCHANGED <<viewVars, histVars, workerVars, isLoading, error, isPreviewingAdjustments,
                 adjustmentParams, remotePending, sessionVars>>

\* sourceImage.onload without an exception: addToHistory(newImageFile)
CropLoaded ==
  \E k \in 1..Len(cropPending) :
    /\ created < MaxUrls
    /\ SetHist(addToHistory(history, currentIndex, cropPending[k].idx, ImageFile,
                            FALSE, created, revoked))
    /\ cropPending' = RemoveAt(cropPending, k)
    /\ lastOp' = Op("cropLoaded", ImageFile, FALSE)
    /\ UNCHANGED <<viewVars, workerVars, isLoading, error, isPreviewingAdjustments,
                   adjustmentParams, remotePending, sessionVars>>

\* sourceImage.onerror, or an exception inside onload
CropFailed ==
  \E k \in 1..Len(cropPending) :
    /\ error' = "crop"
    /\ cropPending' = RemoveAt(cropPending, k)
    /\ lastOp' = Op("cropFailed", 0, FALSE)
    /\ UNCHANGED <<viewVars, histVars, workerVars, isLoading, isPreviewingAdjustments,
                   adjustmentParams, remotePending, sessionVars>>

\* ---- local adjustments through the worker ----
\* a slider change (sliders are disabled while isLoading): setAdjustmentParams,
\* handleAdjust, and sendToWorker up to its first await
HandleAdjust(maxReq) ==
  /\ EditorShown
  /\ ~isLoading
  /\ adjustmentRequestIdRef < maxReq
  /\ \E params \in {0, 1} :
       /\ adjustmentParams' = params
       /\ lastOp' = Op("adjust", adjustmentRequestIdRef + 1, FALSE)
  /\ isPreviewingAdjustments' = TRUE
  /\ adjustmentRequestIdRef' = adjustmentRequestIdRef + 1
  /\ sending' = sending \cup {adjustmentRequestIdRef + 1}
  /\ UNCHANGED <<viewVars, histVars, workerQueue, lastCommitted, isLoading, error, remotePending,
                 cropPending, sessionVars>>

\* sendToWorker after its awaits: postMessage({imageData, params, requestId});
\* setIsLoading(true)
SendToWorkerPosted ==
  \E requestId \in sending :
    /\ sending' = sending \ {requestId}
    /\ workerQueue' = Append(workerQueue, requestId)
    /\ isLoading' = TRUE
    /\ lastOp' = Op("posted", requestId, FALSE)
    /\ UNCHANGED <<viewVars, histVars, adjustmentRequestIdRef, lastCommitted, error,
                   isPreviewingAdjustments, adjustmentParams, remotePending, cropPending,
                   sessionVars>>

\* sendToWorker throws (no bitmap, no canvas context, no worker): the catch of
\* handleAdjust
SendToWorkerFailed ==
  \E requestId \in sending :
    /\ sending' = sending \ {requestId}
    /\ error' = "adjust"
    /\ isLoading' = FALSE
    /\ lastOp' = Op("sendFailed", requestId, FALSE)
    /\ UNCHANGED <<viewVars, histVars, adjustmentRequestIdRef, workerQueue, lastCommitted,
                   isPreviewingAdjustments, adjustmentParams, remotePending, cropPending,
                   sessionVars>>

\* ---- the worker (self.onmessage) ----
\* a message without a requestId field
NoRequestId == -2
\* the message sendToWorker posts
Request(requestId) == [imageData |-> TRUE, params |-> TRUE, requestId |-> requestId]

onmessageUnvalidated(data, throws) ==
  IF throws
  THEN [error |-> TRUE, resultImageData |-> FALSE,
        requestId |-> IF data.requestId = NoRequestId THEN -1 ELSE data.requestId]
  ELSE [error |-> FALSE, resultImageData |-> TRUE, requestId |-> data.requestId]
\* self.onmessage: the response it posts for event.data; throws = the pixel
\* loop raises an exception
onmessage(data, throws) ==
  IF ~data.imageData \/ ~data.params \/ data.requestId = NoRequestId \/ throws
  THEN [error |-> TRUE, resultImageData |-> FALSE,
        requestId |-> IF data.requestId = NoRequestId THEN -1 ELSE data.requestId]
  ELSE [error |-> FALSE, resultImageData |-> TRUE, requestId |-> data.requestId]

\* the handler reaches addToHistory(file, true)
commits(data, latest) ==
  ~isStale(data.requestId, latest) /\ ~data.error /\ data.resultImageData

workerFailureSwallowed(data, latest, err) == err
\* the throws of the handler and its catch: setError("Failed to apply adjustment. ...")
workerFailure(data, latest, err) ==
  IF ~isStale(data.requestId, latest) /\ (data.error \/ ~data.resultImageData)
  THEN "adjust" ELSE err

\* workerMessageHandlerRef.current(event).  The handler is refreshed after
\* every render, so its addToHistory has the latest currentIndex.
HandleWorkerResponse(data) ==
  LET stale == isStale(data.requestId, adjustmentRequestIdRef)
      commit == commits(data, adjustmentRequestIdRef)
  IN  /\ commit => created < MaxUrls
      /\ IF commit
         THEN SetHist(addToHistory(history, currentIndex, currentIndex, ImageFile,
                                   TRUE, created, revoked))
         ELSE SetHist(HistState(history, currentIndex, created, revoked))
      /\ error' = workerFailure(data, adjustmentRequestIdRef, error)
      /\ isLoading' = IF stale THEN staleLoading(isLoading) ELSE FALSE
      /\ lastCommitted' = IF commit THEN data.requestId ELSE lastCommitted

\* the response to the oldest posted request arrives; the worker answers in
\* posting order
WorkerMessage ==
  /\ workerQueue # <<>>
  /\ \E throws \in BOOLEAN :
       LET data == onmessage(Request(Head(workerQueue)), throws)
       IN  /\ HandleWorkerResponse(data)
           /\ lastOp' = Op("workerMessage", data.requestId,
                           commits(data, adjustmentRequestIdRef))
  /\ workerQueue' = Tail(workerQueue)
  /\ UNCHANGED <<viewVars, adjustmentRequestIdRef, sending, isPreviewingAdjustments,
                 adjustmentParams, remotePending, cropPending, sessionVars>>

\* slider mouse-up: handleCommitAdjustment
HandleCommitAdjustment ==
  /\ EditorShown
  /\ ~isLoading
  /\ isPreviewingAdjustments' = FALSE
  /\ lastOp' = Op("commitAdjustment", 0, FALSE)
  /\ UNCHANGED <<viewVars, histVars, workerVars, isLoading, error, adjustmentParams,
                 remotePending, cropPending, sessionVars>>

invalidateKeepsRef(ref) == ref
\* adjustmentRequestIdRef.current++; // Invalidate any in-flight requests
invalidate(ref) == ref + 1

\* the Reset Adjustments button (disabled while isLoading or when every
\* intensity is zero): handleReset of the panel, then handleResetAdjustment
HandleResetAdjustment(maxReq) ==
  /\ EditorShown
  /\ ~isLoading
  /\ adjustmentParams # 0
  /\ adjustmentRequestIdRef < maxReq
  /\ adjustmentParams' = 0
  /\ adjustmentRequestIdRef' = invalidate(adjustmentRequestIdRef)
  /\ currentIndex' = IF isPreviewingAdjustments THEN undo(currentIndex) ELSE currentIndex
  /\ isPreviewingAdjustments' = FALSE
  /\ lastOp' = Op("resetAdjustment", currentIndex, isPreviewingAdjustments)
  /\ UNCHANGED <<viewVars, history, created, revoked, sending, workerQueue, lastCommitted, isLoading,
                 error, remotePending, cropPending, sessionVars>>

\* ---- the viewport (useZoomPan) ----
\* wrapperRef.current.getBoundingClientRect(): where the layout put the wrapper
rect == [left |-> 10, top |-> 20]

\* the positions of the pointer (clientX, clientY) and the wheel deltas tried
ClientPoints == {<<10, 20>>, <<60, 70>>, <<131, 51>>}
Deltas == {-1000, -200, 0, 160}

\* const isZoomPanEnabled = activeTab !== 'crop'
isZoomPanEnabledAlways == TRUE
\* const isZoomPanEnabled = activeTab !== 'crop'
isZoomPanEnabled == activeTab # "crop"

clampNoMax(value, min, max) == RatMax(min, value)
clampNoMin(value, min, max) == RatMin(max, value)
\* Math.max(min, Math.min(max, value))
clamp(value, min, max) == RatMax(min, RatMin(max, value))

zoomOffsetInverted(mouse, oldOffset, newScale, oldScale) ==
  RatSub(mouse, RatMul(RatSub(mouse, oldOffset), RatDiv(oldScale, newScale)))
\* mouseX - (mouseX - oldOffsetX) * (newScale / oldScale)
zoomOffset(mouse, oldOffset, newScale, oldScale) ==
  RatSub(mouse, RatMul(RatSub(mouse, oldOffset), RatDiv(newScale, oldScale)))

\* the updater of onWheel, for an event e on a wrapper at r
onWheel(prev, e, r) ==
  LET scroll == RatMul(Num(e.deltaY), Rat(-5, 1000))
      oldScale == prev.scale
      newScale == clamp(RatAdd(oldScale, scroll), MIN_SCALE, MAX_SCALE)
      mouseX == Num(e.clientX - r.left)
      mouseY == Num(e.clientY - r.top)
  IN  IF newScale = oldScale THEN prev
      ELSE [scale |-> newScale,
            offsetX |-> zoomOffset(mouseX, prev.offsetX, newScale, oldScale),
            offsetY |-> zoomOffset(mouseY, prev.offsetY, newScale, oldScale)]

\* The wrapper and its handlers exist while the editor is rendered.  A handler
\* that returns at once (not enabled) still counts as the event it received.
OnWheel(maxEvents) ==
  /\ EditorShown
  /\ viewEvents < maxEvents
  /\ \E deltaY \in Deltas : \E p \in ClientPoints :
       LET e == [deltaY |-> deltaY, clientX |-> p[1], clientY |-> p[2]]
       IN  /\ zoomPanState' = IF isZoomPanEnabled THEN onWheel(zoomPanState, e, rect)
                              ELSE zoomPanState
           /\ lastOp' = [op |-> "wheel", arg |-> deltaY, flag |-> isZoomPanEnabled,
                         mouse |-> <<p[1] - rect.left, p[2] - rect.top>>]
  /\ viewEvents' = viewEvents + 1
  /\ UNCHANGED <<isPanningRef, lastMousePosRef, activeTab, displayHotspot, editHotspot,
                 histVars, workerVars, isLoading, error, isPreviewingAdjustments,
                 adjustmentParams, remotePending, cropPending, sessionVars>>

OnMouseDown ==
  /\ EditorShown
  /\ \E p \in ClientPoints :
       /\ IF isZoomPanEnabled
          THEN isPanningRef' = TRUE /\ lastMousePosRef' = p
          ELSE UNCHANGED <<isPanningRef, lastMousePosRef>>
       /\ lastOp' = [op |-> "mouseDown", arg |-> 0, flag |-> isZoomPanEnabled, client |-> p]
  /\ UNCHANGED <<zoomPanState, viewEvents, activeTab, displayHotspot, editHotspot,
                 histVars, workerVars, isLoading, error, isPreviewingAdjustments,
                 adjustmentParams, remotePending, cropPending, sessionVars>>

OnMouseUp ==
  /\ EditorShown
  /\ isPanningRef' = IF isZoomPanEnabled THEN FALSE ELSE isPanningRef
  /\ lastOp' = Op("mouseUp", 0, isZoomPanEnabled)
  /\ UNCHANGED <<zoomPanState, lastMousePosRef, viewEvents, activeTab, displayHotspot,
                 editHotspot, histVars, workerVars, isLoading, error,
                 isPreviewingAdjustments, adjustmentParams, remotePending, cropPending,
                 sessionVars>>

\* the flag of the step tells whether the handler went past its first line
OnMouseMove(maxEvents) ==
  /\ EditorShown
  /\ viewEvents < maxEvents
  /\ \E p \in ClientPoints :
       /\ IF isZoomPanEnabled /\ isPanningRef
          THEN LET dx == p[1] - lastMousePosRef[1]
                   dy == p[2] - lastMousePosRef[2]
               IN  /\ lastMousePosRef' = p
                   /\ zoomPanState' =
                        [zoomPanState EXCEPT !.offsetX = RatAdd(@, Num(dx)),
                                             !.offsetY = RatAdd(@, Num(dy))]
          ELSE UNCHANGED <<lastMousePosRef, zoomPanState>>
       /\ lastOp' = [op |-> "mouseMove", arg |-> 0, flag |-> isZoomPanEnabled /\ isPanningRef,
                     client |-> p]
  /\ viewEvents' = viewEvents + 1
  /\ UNCHANGED <<isPanningRef, activeTab, displayHotspot, editHotspot, histVars, workerVars,
                 isLoading, error, isPreviewingAdjustments, adjustmentParams, remotePending,
                 cropPending, sessionVars>>

OnMouseLeave ==
  /\ EditorShown
  /\ isPanningRef' = IF isZoomPanEnabled /\ isPanningRef THEN FALSE ELSE isPanningRef
  /\ lastOp' = Op("mouseLeave", 0, isZoomPanEnabled)
  /\ UNCHANGED <<zoomPanState, lastMousePosRef, viewEvents, activeTab, displayHotspot,
                 editHotspot, histVars, workerVars, isLoading, error,
                 isPreviewingAdjustments, adjustmentParams, remotePending, cropPending,
                 sessionVars>>

\* the tab buttons tried: onClick={() => setActiveTab(tab)}
\* ('fine-tune' differs from 'filters' in the panel shown only)
Tabs == {"retouch", "crop", "filters"}

SetActiveTab ==
  /\ EditorShown
  /\ \E tab \in Tabs :
       /\ activeTab' = tab
       /\ lastOp' = [op |-> "setActiveTab", arg |-> 0, flag |-> FALSE, tab |-> tab]
  /\ UNCHANGED <<zoomVars, displayHotspot, editHotspot, histVars, workerVars, isLoading,
                 error, isPreviewingAdjustments, adjustmentParams, remotePending,
                 cropPending, sessionVars>>

\* ---- the click on the image (App.tsx, handleImageClick) ----
\* imgRef.current as the browser laid it out: not yet loaded (all sizes 0), or
\* shown at 100 x 80 for a picture of 250 x 200
Images ==
  {[width |-> 0, height |-> 0, naturalWidth |-> 0, naturalHeight |-> 0],
   [width |-> 100, height |-> 80, naturalWidth |-> 250, naturalHeight |-> 200]}

\* img.width === 0 || img.height === 0 || img.naturalWidth === 0 || img.naturalHeight === 0
unloaded(img) ==
  img.width = 0 \/ img.height = 0 \/ img.naturalWidth = 0 \/ img.naturalHeight = 0

\* (viewX - zoomPanState.offsetX) / zoomPanState.scale
imageCoord(view, offset, scale) == RatDiv(RatSub(Num(view), offset), scale)

outOfBoundsLowerOnly(imageX, imageY, img) == RatLt(imageX, Num(0)) \/ RatLt(imageY, Num(0))
\* imageX < 0 || imageX > img.width || imageY < 0 || imageY > img.height
outOfBounds(imageX, imageY, img) ==
  \/ RatLt(imageX, Num(0)) \/ RatLt(Num(img.width), imageX)
  \/ RatLt(imageY, Num(0)) \/ RatLt(Num(img.height), imageY)

\* Math.round(imageX * (naturalWidth / img.width))
original(image, natural, displayed) == MathRound(RatMul(image, Rat(natural, displayed)))

markerPositionTranslateFirst(hotspot, zps) ==
  <<RatMul(RatAdd(hotspot[1], zps.offsetX), zps.scale),
    RatMul(RatAdd(hotspot[2], zps.offsetY), zps.scale)>>
\* translate(displayHotspot.x * scale + offsetX px, displayHotspot.y * scale + offsetY px),
\* from the top left corner of the wrapper
markerPosition(hotspot, zps) ==
  <<RatAdd(RatMul(hotspot[1], zps.scale), zps.offsetX),
    RatAdd(RatMul(hotspot[2], zps.scale), zps.offsetY)>>

\* the flag of the step tells whether the handler got to the bounds check
HandleImageClick ==
  /\ EditorShown
  /\ \E p \in ClientPoints : \E img \in Images :
       LET viewX == p[1] - rect.left
           viewY == p[2] - rect.top
           imageX == imageCoord(viewX, zoomPanState.offsetX, zoomPanState.scale)
           imageY == imageCoord(viewY, zoomPanState.offsetY, zoomPanState.scale)
           mapped == activeTab = "retouch" /\ ~unloaded(img)
       IN  /\ IF mapped /\ ~outOfBounds(imageX, imageY, img)
              THEN /\ displayHotspot' = <<imageX, imageY>>
                   /\ editHotspot' = <<original(imageX, img.naturalWidth, img.width),
                                       original(imageY, img.naturalHeight, img.height)>>
              ELSE UNCHANGED <<displayHotspot, editHotspot>>
           /\ lastOp' = [op |-> "click", arg |-> 0, flag |-> mapped,
                         view |-> <<viewX, viewY>>, img |-> img]
  /\ UNCHANGED <<zoomVars, activeTab, histVars, workerVars, isLoading, error,
                 isPreviewingAdjustments, adjustmentParams, remotePending, cropPending,
                 sessionVars>>

\* ---- the auto-save (useAutoSave) and the store (db) ----
captureWithHandles(h, idx, zps) ==
  [present |-> TRUE, history |-> h, currentIndex |-> idx, zoomPanState |-> zps]
\* { history: history.map(({ id, file }) => ({ id, file })), currentIndex, zoomPanState }
capture(h, idx, zps) ==
  [present |-> TRUE,
   history |-> [i \in 1..Len(h) |-> [id |-> h[i].id, file |-> h[i].file]],
   currentIndex |-> idx,
   zoomPanState |-> zps]

\* window.setTimeout returns an id no pending timeout has
newTimerId(ts) ==
  CHOOSE i \in 1..(Cardinality(ts) + 1) :
    /\ \A t \in ts : t.id # i
    /\ \A j \in 1..(i - 1) : \E t \in ts : t.id = j

useAutoSaveNoClear(ts, ref, h, idx, zps) ==
  LET id == newTimerId(ts)
  IN  [timers |-> ts \cup {Timer(id, h, idx, zps)}, timeoutRef |-> id]
\* the effect of useAutoSave, run for a render whose history, currentIndex or
\* zoomPanState is a new value: clearTimeout(timeoutRef.current), then
\* timeoutRef.current = window.setTimeout(...)
useAutoSave(ts, ref, h, idx, zps) ==
  LET cleared == {t \in ts : t.id # ref}
      id == newTimerId(cleared)
  IN  [timers |-> cleared \cup {Timer(id, h, idx, zps)}, timeoutRef |-> id]

\* the argument the callback of a timeout hands to saveSession
sessionData(t) ==
  IF Len(t.history) > 0 THEN capture(t.history, t.currentIndex, t.zoomPanState)
  ELSE NullSnapshot

saveSessionAlwaysPut(isStored, session, fails) ==
  IF fails THEN [stored |-> isStored, op |-> "failed"]
  ELSE [stored |-> TRUE, op |-> "put"]
\* saveSession(session): db.put or db.delete; an error is caught and logged
saveSession(isStored, session, fails) ==
  IF fails THEN [stored |-> isStored, op |-> "failed"]
  ELSE IF session.present /\ Len(session.history) > 0
       THEN [stored |-> TRUE, op |-> "put"]
       ELSE [stored |-> FALSE, op |-> "delete"]

\* the step of saveSession on the store, and the record of the call: what it
\* was given, what it did, and whether a record was stored before it
SaveSession(session, fails) ==
  LET r == saveSession(stored, session, fails)
  IN  /\ stored' = r.stored
      /\ written' = [op |-> r.op, session |-> session, before |-> stored]

\* a timeout of useAutoSave expires, DEBOUNCE_DELAY after it was set
TimerFires ==
  /\ \E t \in timers : \E fails \in BOOLEAN :
       /\ SaveSession(sessionData(t), fails)
       /\ timers' = timers \ {t}
       /\ lastOp' = Op("save", t.id, fails)
  /\ UNCHANGED <<pixelVars, trackVars>>
  /\ UNCHANGED <<timeoutRef, viewVars, histVars, workerVars, isLoading, error,
                 isPreviewingAdjustments, adjustmentParams, remotePending, cropPending,
                 hasCheckedSession, sessionToRestore>>

\* setHistory and setZoomPanState got a new array or object, whatever it holds:
\* resetHistory returns a new [], the updater of onMouseMove a new object
newObject ==
  \/ lastOp'.op \in {"upload", "uploadNew"}
  \/ lastOp'.op = "mouseMove" /\ lastOp'.flag

\* the dependencies [history, currentIndex, zoomPanState] of the effect changed
depsChanged ==
  \/ <<history', currentIndex', zoomPanState'>> # <<history, currentIndex, zoomPanState>>
  \/ newObject

\* a handler followed by the render it causes, with the effect of useAutoSave
WithSave(Handler) ==
  /\ Handler
  /\ IF depsChanged
     THEN LET r == useAutoSave(timers, timeoutRef, history', currentIndex', zoomPanState')
          IN  timers' = r.timers /\ timeoutRef' = r.timeoutRef
     ELSE UNCHANGED <<timers, timeoutRef>>
  /\ written' = written
  /\ UNCHANGED <<pixelVars, trackVars>>

\* a handler with the timeout of useAutoSave left pending: the specifications
\* that are not about the store, the pixels or what the files show
NoSave(Handler) == Handler /\ UNCHANGED saveVars /\ UNCHANGED <<pixelVars, trackVars>>

\* every handler, with the limits on the sequence number, on pending remote
\* edits and on pending crops
Handlers(maxReq, maxRemote, maxCrop, maxStored) ==
  \/ NoSave(CheckSession(maxStored))
  \/ NoSave(HandleRestoreSession)
  \/ NoSave(HandleDeclineRestore)
  \/ NoSave(HandleImageUpload)
  \/ NoSave(HandleUploadNew)
  \/ NoSave(GoToHistory)
  \/ NoSave(HandleReset)
  \/ NoSave(Undo)
  \/ NoSave(Redo)
  \/ NoSave(DismissError)
  \/ NoSave(HandleGeminiRequest(maxRemote))
  \/ NoSave(GeminiResolved)
  \/ NoSave(GeminiRejected)
  \/ NoSave(HandleApplyCrop(maxCrop))
  \/ NoSave(CropLoaded)
  \/ NoSave(CropFailed)
  \/ NoSave(HandleAdjust(maxReq))
  \/ NoSave(SendToWorkerPosted)
  \/ NoSave(SendToWorkerFailed)
  \/ NoSave(WorkerMessage)
  \/ NoSave(HandleCommitAdjustment)
  \/ NoSave(HandleResetAdjustment(maxReq))

Next == Handlers(MaxReq, MaxRemote, MaxCrop, MaxStored)
NextWorker == Handlers(WorkerMaxReq, WorkerMaxRemote, WorkerMaxCrop, MaxStored)
NextRemote == Handlers(RemoteMaxReq, RemoteMaxRemote, RemoteMaxCrop, MaxStored)
NextSession == Handlers(SessionMaxReq, SessionMaxRemote, SessionMaxCrop, SessionMaxStored)

Spec == Init /\ [][Next]_vars
SpecWorker == Init /\ [][NextWorker]_vars
SpecRemote == Init /\ [][NextRemote]_vars
SpecSession == Init /\ [][NextSession]_vars

\* ---- the hook and the worker driven through their interfaces ----
\* Calls of the functions useHistory returns, made from the latest render with
\* any argument, and messages of any shape posted to the worker.
CallAddToHistory ==
  /\ created < MaxUrls
  /\ \E newImageFile \in {EmptyFile, ImageFile} : \E replace \in BOOLEAN :
       /\ SetHist(addToHistory(history, currentIndex, currentIndex, newImageFile, replace,
                               created, revoked))
       /\ lastOp' = Op("addToHistory", newImageFile, replace)
  /\ UNCHANGED <<viewVars, workerVars, isLoading, error, isPreviewingAdjustments, adjustmentParams,
                 remotePending, cropPending, sessionVars>>

CallUndo ==
  /\ currentIndex' = undo(currentIndex)
  /\ lastOp' = Op("undo", currentIndex, FALSE)
  /\ UNCHANGED <<viewVars, history, created, revoked, workerVars, isLoading, error,
                 isPreviewingAdjustments, adjustmentParams, remotePending, cropPending,
                 sessionVars>>

CallRedo ==
  /\ currentIndex' = redo(history, currentIndex)
  /\ lastOp' = Op("redo", currentIndex, FALSE)
  /\ UNCHANGED <<viewVars, history, created, revoked, workerVars, isLoading, error,
                 isPreviewingAdjustments, adjustmentParams, remotePending, cropPending,
                 sessionVars>>

CallGoToHistory ==
  /\ \E index \in -1..MaxUrls :
       /\ currentIndex' = goToHistory(history, currentIndex, index)
       /\ lastOp' = Op("goTo", index, FALSE)
  /\ UNCHANGED <<viewVars, history, created, revoked, workerVars, isLoading, error,
                 isPreviewingAdjustments, adjustmentParams, remotePending, cropPending,
                 sessionVars>>

CallResetHistory ==
  /\ SetHist(resetHistory(history, created, revoked))
  /\ lastOp' = Op("resetHistory", 0, FALSE)
  /\ UNCHANGED <<viewVars, workerVars, isLoading, error, isPreviewingAdjustments, adjustmentParams,
                 remotePending, cropPending, sessionVars>>

\* handleRestoreSession with any record, null included
CallRestoreSession ==
  \E session \in SavedSessions(SessionMaxStored) \cup {NoSession} :
    handleRestoreSession(session)

\* the messages a caller can post to the worker: each field present or not
Messages ==
  [imageData : BOOLEAN, params : BOOLEAN, requestId : {NoRequestId} \cup 0..ApiMaxId]

\* worker.postMessage(data), and the handling of the response it produces
PostToWorker ==
  /\ \E data \in Messages : \E throws \in BOOLEAN :
       LET response == onmessage(data, throws)
       IN  /\ HandleWorkerResponse(response)
           /\ lastOp' = [op |-> "postToWorker", arg |-> response.requestId,
                         flag |-> commits(response, adjustmentRequestIdRef),
                         data |-> data, response |-> response]
  /\ UNCHANGED <<viewVars, adjustmentRequestIdRef, sending, workerQueue, isPreviewingAdjustments,
                 adjustmentParams, remotePending, cropPending, sessionVars>>

\* saveSession with any argument: null, a snapshot without entries, or the
\* snapshot of the state
Snapshots ==
  {NullSnapshot, capture(<<>>, -1, zoomPanState), capture(history, currentIndex, zoomPanState)}

CallSaveSession ==
  /\ \E session \in Snapshots : \E fails \in BOOLEAN :
       /\ SaveSession(session, fails)
       /\ lastOp' = Op("saveSession", Len(session.history), fails)
  /\ UNCHANGED <<pixelVars, trackVars>>
  /\ UNCHANGED <<timers, timeoutRef, viewVars, histVars, workerVars, isLoading, error,
                 isPreviewingAdjustments, adjustmentParams, remotePending, cropPending,
                 hasCheckedSession, sessionToRestore>>

NextApi ==
  \/ NoSave(CallAddToHistory)
  \/ NoSave(CallUndo)
  \/ NoSave(CallRedo)
  \/ NoSave(CallGoToHistory)
  \/ NoSave(CallResetHistory)
  \/ NoSave(CallRestoreSession)
  \/ NoSave(PostToWorker)

SpecApi == Init /\ [][NextApi]_vars

\* the store driven through saveSession, with calls of the hook that give the
\* state entries to save
NextStore ==
  \/ NoSave(CallAddToHistory)
  \/ NoSave(CallUndo)
  \/ NoSave(CallResetHistory)
  \/ CallSaveSession

SpecStore == Init /\ [][NextStore]_vars

\* ---- the pixel loop of the worker (self.onmessage) ----
\* Numbers are exact fractions, as in the viewport.  Math.pow(2, x) is
\* rational only for whole x, so the exposures tried are -100, 0 and 100.
Third(k) == Rat(k, 3)

\* the value of a local that is computed once and then used several times:
\* The({ e(x) : x \in {v} }) is e(v)
The(S) == CHOOSE v \in S : TRUE

\* function rgbToHsl(r, g, b)
rgbToHsl(r0, g0, b0) ==
  The({ The({ The({
    IF max = min THEN <<Num(0), Num(0), l>>
    ELSE <<RatDiv(IF max = r
                  THEN RatAdd(RatDiv(RatSub(g, b), d),
                              IF RatLt(g, b) THEN Num(6) ELSE Num(0))
                  ELSE IF max = g
                       THEN RatAdd(RatDiv(RatSub(b, r), d), Num(2))
                       ELSE RatAdd(RatDiv(RatSub(r, g), d), Num(4)),
                  Num(6)),
           IF RatLt(Rat(1, 2), l)
           THEN RatDiv(d, RatSub(RatSub(Num(2), max), min))
           ELSE RatDiv(d, RatAdd(max, min)),
           l>>
    : l \in {RatDiv(RatAdd(max, min), Num(2))}, d \in {RatSub(max, min)} })
    : max \in {RatMax(r, RatMax(g, b))}, min \in {RatMin(r, RatMin(g, b))} })
    : r \in {RatDiv(r0, Num(255))}, g \in {RatDiv(g0, Num(255))},
      b \in {RatDiv(b0, Num(255))} })

\* const hue2rgb = (p, q, t) => ...
hue2rgb(p, q, t0) ==
  The({ IF RatLt(t, Rat(1, 6)) THEN RatAdd(p, RatMul(RatMul(RatSub(q, p), Num(6)), t))
        ELSE IF RatLt(t, Rat(1, 2)) THEN q
        ELSE IF RatLt(t, Third(2))
             THEN RatAdd(p, RatMul(RatMul(RatSub(q, p), RatSub(Third(2), t)), Num(6)))
             ELSE p
        : t \in {The({ IF RatLt(Num(1), t1) THEN RatSub(t1, Num(1)) ELSE t1
                       : t1 \in {IF RatLt(t0, Num(0)) THEN RatAdd(t0, Num(1)) ELSE t0} })} })

\* the r, g and b of hslToRgb for given p and q, times 255
hslChannels(h, s, l, p, q) ==
  IF s = Num(0)
  THEN <<RatMul(l, Num(255)), RatMul(l, Num(255)), RatMul(l, Num(255))>>
  ELSE <<RatMul(hue2rgb(p, q, RatAdd(h, Third(1))), Num(255)),
         RatMul(hue2rgb(p, q, h), Num(255)),
         RatMul(hue2rgb(p, q, RatSub(h, Third(1))), Num(255))>>

hslToRgbOneBranch(h, s, l) ==
  The({ The({ hslChannels(h, s, l, p, q) : p \in {RatSub(RatMul(Num(2), l), q)} })
        : q \in {RatSub(RatAdd(l, s), RatMul(l, s))} })
\* function hslToRgb(h, s, l)
hslToRgb(h, s, l) ==
  The({ The({ hslChannels(h, s, l, p, q) : p \in {RatSub(RatMul(Num(2), l), q)} })
        : q \in {IF RatLt(l, Rat(1, 2)) THEN RatMul(l, RatAdd(Num(1), s))
                 ELSE RatSub(RatAdd(l, s), RatMul(l, s))} })

Cube(x) == RatMul(x, RatMul(x, x))

\* const easeInOutCubic = (t) => t < 0.5 ? 4 * t * t * t : 1 - Math.pow(-2 * t + 2, 3) / 2
easeInOutCubic(t) ==
  IF RatLt(t, Rat(1, 2)) THEN RatMul(Num(4), Cube(t))
  ELSE RatSub(Num(1), RatDiv(Cube(RatAdd(RatMul(Num(-2), t), Num(2))), Num(2)))

\* Math.pow(2, params.exposure / 100.0), for the exposures tried
exposureFactor(exposure) ==
  CASE exposure = 0 -> Num(1)
    [] exposure = 100 -> Num(2)
    [] exposure = -100 -> Rat(1, 2)

\* a store into the Uint8ClampedArray: clamped to [0, 255] and rounded to the
\* nearest integer, a half to the even one
toUint8Clamped(x) ==
  The({ The({ IF 2 * (c.n - floor * c.d) < c.d THEN floor
              ELSE IF 2 * (c.n - floor * c.d) > c.d THEN floor + 1
              ELSE IF floor % 2 = 0 THEN floor ELSE floor + 1
              : floor \in {c.n \div c.d} })
        : c \in {clamp(x, Num(0), Num(255))} })

\* exposure, contrast and brightness on one channel
tone(x, params) ==
  clamp(RatAdd(RatAdd(RatMul(RatSub(RatMul(Num(x), exposureFactor(params.exposure)),
                                    Num(128)),
                             RatAdd(Num(1), Rat(params.contrast, 100))),
                      Num(128)),
               Num(params.brightness)),
        Num(0), Num(255))

\* highlights and shadows on the lightness
lightness(l0, params) ==
  The({ clamp(IF params.shadows # 0
              THEN RatAdd(l1, RatMul(easeInOutCubic(RatSub(Num(1), l1)),
                                     Rat(params.shadows, 100)))
              ELSE l1,
              Num(0), Num(1))
        : l1 \in {IF params.highlights # 0
                  THEN RatAdd(l0, RatMul(easeInOutCubic(l0), Rat(params.highlights, 100)))
                  ELSE l0} })

\* vibrance and saturation on the saturation
saturationOf(s0, params) ==
  The({ clamp(IF params.saturation # 0
              THEN RatMul(s1, RatAdd(Num(1), Rat(params.saturation, 100)))
              ELSE s1,
              Num(0), Num(1))
        : s1 \in {IF params.vibrance # 0
                  THEN RatAdd(s0, RatMul(Rat(params.vibrance, 100),
                                         RatSub(Num(1), easeInOutCubic(s0))))
                  ELSE s0} })

\* one turn of the loop: the three colour bytes of a pixel
adjustPixel(r0, g0, b0, params) ==
  The({ The({ <<toUint8Clamped(rgb[1]), toUint8Clamped(rgb[2]), toUint8Clamped(rgb[3])>>
              : rgb \in {hslToRgb(hsl[1], saturationOf(hsl[2], params),
                                  lightness(hsl[3], params))} })
        : hsl \in {rgbToHsl(tone(r0, params), tone(g0, params), tone(b0, params))} })

pixelLoopEveryByte(data, params) ==
  [i \in 1..Len(data) |->
     LET k == ((i - 1) \div 4) * 4
         bytes == adjustPixel(data[k + 1], data[k + 2], data[k + 3], params)
     IN  bytes[((i - 1) % 3) + 1]]
\* for (let i = 0; i < data.length; i += 4): data[i], data[i + 1] and
\* data[i + 2] are assigned, data[i + 3] is not
pixelLoop(data, params) ==
  [i \in 1..Len(data) |->
     LET k == ((i - 1) \div 4) * 4
         bytes == adjustPixel(data[k + 1], data[k + 2], data[k + 3], params)
     IN  IF i % 4 = 0 THEN data[i] ELSE bytes[i - k]]

\* the byte values, the buffers and the parameter sets tried
Levels == {0, 1, 100, 128, 200, 255}
Alphas == {0, 77, 255}

Buffers ==
  {<<r, g, b, a>> : r \in Levels, g \in Levels, b \in Levels, a \in Alphas}
  \cup {<<>>, <<255, 0, 0, 77, 1, 100, 200, 0>>}

ParamSets ==
  {IdentityParams,
   [IdentityParams EXCEPT !.brightness = 50],
   [IdentityParams EXCEPT !.contrast = -50, !.exposure = 100],
   [IdentityParams EXCEPT !.exposure = -100, !.saturation = 50],
   [IdentityParams EXCEPT !.saturation = -100]}

\* highlights, shadows and vibrance go through the cubic easing; they are tried
\* on greys and on pure colours, where the fractions stay small
ToneBuffers ==
  {<<v, v, v, a>> : v \in Levels, a \in Alphas}
  \cup {<<255, 0, 0, 77>>, <<0, 255, 0, 77>>, <<0, 0, 255, 77>>,
        <<100, 100, 100, 255, 255, 0, 0, 0>>}

ToneParamSets ==
  {[IdentityParams EXCEPT !.highlights = 50],
   [IdentityParams EXCEPT !.shadows = -50],
   [IdentityParams EXCEPT !.highlights = -100, !.vibrance = 50]}

\* a message with a buffer and parameters is waiting for the worker
InitPixel ==
  /\ InitApp
  /\ \/ workerData \in Buffers /\ workerParams \in ParamSets
     \/ workerData \in ToneBuffers /\ workerParams \in ToneParamSets
  /\ workerResult = <<>>

\* self.onmessage for a valid message: the loop over imageData.data, then
\* postMessage({ resultImageData: imageData, requestId })
OnmessagePixels ==
  /\ workerResult = <<>>
  /\ workerResult' = pixelLoop(workerData, workerParams)
  /\ lastOp' = Op("pixels", Len(workerData), workerParams = IdentityParams)
  /\ UNCHANGED <<workerData, workerParams, trackVars, saveVars, viewVars, histVars,
                 workerVars, isLoading, error, isPreviewingAdjustments, adjustmentParams,
                 remotePending, cropPending, sessionVars>>

NextPixel == OnmessagePixels

SpecPixel == InitPixel /\ [][NextPixel]_vars

\* ---- what the adjustment requests are computed from ----
\* getBaseImageForAdjustment(), as the entry whose file it returns
getBaseImageForAdjustment(h, idx, previewing) ==
  IF previewing /\ idx > 0 THEN h[idx] ELSE h[idx + 1]

\* a handler, with the record of what it asked of the worker and of what the
\* worker's answer put into history: sendToWorker reads the base image when
\* handleAdjust calls it; a preview session begins with a handleAdjust that
\* finds isPreviewingAdjustments false
Tracked(Handler) ==
  /\ Handler
  /\ UNCHANGED saveVars
  /\ UNCHANGED pixelVars
  /\ posted' =
       IF lastOp'.op = "adjust"
       THEN posted @@ (lastOp'.arg :>
              [base |-> getBaseImageForAdjustment(history, currentIndex,
                                                  isPreviewingAdjustments).id,
               params |-> adjustmentParams'])
       ELSE posted
  /\ preview' =
       CASE lastOp'.op = "adjust" /\ ~isPreviewingAdjustments ->
              [preview EXCEPT !.base = history[currentIndex + 1].id]
         [] lastOp'.op = "resetAdjustment" ->
              [preview EXCEPT !.resetRef = adjustmentRequestIdRef']
         [] lastOp'.op \in {"upload", "uploadNew"} ->
              [preview EXCEPT !.clearRef = adjustmentRequestIdRef]
         [] OTHER -> preview
  /\ fileContent' =
       IF lastOp'.op = "workerMessage" /\ lastOp'.flag
       THEN fileContent @@ (history'[Len(history')].id :> posted[lastOp'.arg])
       ELSE fileContent

NextAdjust ==
  \/ Tracked(CheckSession(SessionMaxStored))
  \/ Tracked(HandleRestoreSession)
  \/ Tracked(HandleDeclineRestore)
  \/ Tracked(HandleImageUpload)
  \/ Tracked(HandleUploadNew)
  \/ Tracked(Undo)
  \/ Tracked(Redo)
  \/ Tracked(DismissError)
  \/ Tracked(HandleAdjust(AdjustMaxReq))
  \/ Tracked(SendToWorkerPosted)
  \/ Tracked(SendToWorkerFailed)
  \/ Tracked(WorkerMessage)
  \/ Tracked(HandleCommitAdjustment)
  \/ Tracked(HandleResetAdjustment(AdjustMaxReq))

SpecAdjust == Init /\ [][NextAdjust]_vars

\* ---- startup with a longer session record ----
NextRestore ==
  \/ NoSave(CheckSession(RestoreMaxStored))
  \/ NoSave(HandleRestoreSession)
  \/ NoSave(HandleDeclineRestore)
  \/ NoSave(DismissError)
  \/ NoSave(Undo)
  \/ NoSave(Redo)

SpecRestore == Init /\ [][NextRestore]_vars

\* ---- the viewport and the click, from startup to the editor ----
NextView ==
  \/ NoSave(CheckSession(MaxStored))
  \/ NoSave(HandleDeclineRestore)
  \/ NoSave(HandleImageUpload)
  \/ NoSave(SetActiveTab)
  \/ NoSave(OnWheel(MaxViewEvents))
  \/ NoSave(OnMouseDown)
  \/ NoSave(OnMouseUp)
  \/ NoSave(OnMouseMove(MaxViewEvents))
  \/ NoSave(OnMouseLeave)
  \/ NoSave(HandleImageClick)

SpecView == Init /\ [][NextView]_vars

\* ---- the auto-save: handlers that change history, cursor or viewport, each
\* with the effect of useAutoSave, and the timeout ----
NextSave ==
  \/ WithSave(CheckSession(SessionMaxStored))
  \/ WithSave(HandleRestoreSession)
  \/ WithSave(HandleDeclineRestore)
  \/ WithSave(HandleImageUpload)
  \/ WithSave(HandleUploadNew)
  \/ WithSave(DismissError)
  \/ WithSave(Undo)
  \/ WithSave(Redo)
  \/ WithSave(OnWheel(SaveMaxViewEvents))
  \/ TimerFires

SpecSave == Init /\ [][NextSave]_vars

\* checkSession runs to its finally block: every await in it settles (the
\* store functions catch their own errors)
FairSpecSave == SpecSave /\ WF_vars(WithSave(CheckSession(SessionMaxStored)))

\* the worker answers every request posted to it (both branches of its
\* onmessage post a response) and the event loop delivers the answer
FairSpec == Spec /\ WF_vars(NoSave(WorkerMessage))

\* ---- the claims ----
\* the entry an append or a replace made in this step
IsNewEntry(e) == e.thumbnailUrl = created' /\ created' = created + 1

\* a step that appended: a remote edit resolved with an image, or a crop loaded
AppendStep ==
  \/ lastOp'.op = "remoteResolved" /\ lastOp'.arg = ImageFile
  \/ lastOp'.op = "cropLoaded"

\* a step in which a worker response was put into history (replaceTop)
ReplaceStep == lastOp'.op = "workerMessage" /\ lastOp'.flag

\* C1: in every reachable state the cursor is -1 exactly when the sequence is
\* empty, and otherwise 0 <= cursor < length of the sequence.
C1_CursorInBounds ==
  /\ (currentIndex = -1) <=> (Len(history) = 0)
  /\ Len(history) > 0 => (0 <= currentIndex /\ currentIndex < Len(history))

\* C2: an append made while the cursor c is below the top discards every entry
\* at index > c, puts the new snapshot at index c+1, moves the cursor to c+1,
\* the new last index, and leaves canRedo false.
C2_AppendBelowTop ==
  [][(AppendStep /\ hasCurrentEntry(history, currentIndex)
        /\ currentIndex < Len(history) - 1)
      => /\ Len(history') = currentIndex + 2
         /\ SubSeq(history', 1, currentIndex + 1) = SubSeq(history, 1, currentIndex + 1)
         /\ IsNewEntry(history'[Len(history')])
         /\ currentIndex' = currentIndex + 1
         /\ ~canRedo(history', currentIndex')]_vars

\* C3: when a remote edit or a crop completes successfully, whatever undo, redo
\* or goTo happened while it was pending, the new snapshot is the last entry of
\* the sequence and the cursor points at it.
C3_AppendIsCurrent ==
  [][AppendStep
      => /\ Len(history') > 0
         /\ IsNewEntry(history'[Len(history')])
         /\ currentIndex' = Len(history') - 1]_vars

\* the entries of the stack that hold handle u
Holders(u) == {i \in 1..Len(history) : history[i].thumbnailUrl = u}

\* C4: every display handle that was created is either held by exactly one
\* entry of the stack and not released, or held by none and released exactly
\* once.
C4_HandleAccounting ==
  \A u \in 1..created :
    \/ Cardinality(Holders(u)) = 1 /\ revoked[u] = 0
    \/ Cardinality(Holders(u)) = 0 /\ revoked[u] = 1

\* C5: a worker response changes the history only if its sequence number equals
\* the most recently issued number at the time it arrives; any other response
\* leaves the stack and its handles as they were.
C5_OnlyLatestCommitted ==
  [][lastOp'.op = "workerMessage"
      => /\ lastOp'.flag => lastOp'.arg = adjustmentRequestIdRef
         /\ lastOp'.arg # adjustmentRequestIdRef => UNCHANGED histVars
         /\ lastCommitted' # lastCommitted => lastCommitted' = adjustmentRequestIdRef]_vars

\* requests 1, 2, 3 with 3 answered before 2: response 3 was committed and
\* response 2, arriving last, has just been discarded
C5_Witness ==
  /\ lastOp = Op("workerMessage", 2, FALSE)
  /\ adjustmentRequestIdRef = 3
  /\ lastCommitted = 3
  /\ workerQueue = <<>>
  /\ sending = {}

\* C6: every worker response, matching or stale, success or failure, clears
\* the busy indicator; when every posted request is answered the indicator is
\* eventually cleared, and it is clear whenever no request and no remote edit
\* is outstanding.
C6_BusyCleared ==
  /\ [][lastOp'.op = "workerMessage" => ~isLoading']_vars
  /\ [](workerQueue = <<>> /\ remotePending = <<>> => ~isLoading)
  /\ (workerQueue # <<>>) ~> ~isLoading

\* a stale response has just been handled while the indicator was set, and
\* cleared it
C6_Witness ==
  /\ lastOp.op = "workerMessage"
  /\ lastOp.arg # adjustmentRequestIdRef
  /\ workerQueue = <<>>
  /\ remotePending = <<>>
  /\ error = "none"
  /\ ~isLoading

\* C7: the result of a remote edit that was still pending when a later remote
\* edit was issued is not appended to the history when it resolves.
C7_SupersededIgnored ==
  [][(lastOp'.op = "remoteResolved" /\ lastOp'.flag) => UNCHANGED histVars]_vars

\* C8: a replaceTop releases exactly the handle of the entry it overwrites, the
\* current top, puts the new snapshot in that slot, and changes neither the
\* cursor nor the length of the sequence.
C8_ReplaceInPlace ==
  [][ReplaceStep
      => /\ Len(history) > 0
         /\ Len(history') = Len(history)
         /\ currentIndex' = currentIndex
         /\ SubSeq(history', 1, Len(history) - 1) = SubSeq(history, 1, Len(history) - 1)
         /\ IsNewEntry(history'[Len(history')])
         /\ hasCurrentEntry(history, currentIndex)
         /\ revoked' = revokeObjectURL(revoked, history[currentIndex + 1].thumbnailUrl)]_vars

\* C9: an append with an empty File changes neither the sequence nor the cursor
\* and creates no display handle: a remote edit that resolves to an empty File
\* leaves the stack as it was, and an upload of an empty File leaves what its
\* resetHistory left.
C9_EmptyFileRejected ==
  [][/\ (lastOp'.op = "remoteResolved" /\ lastOp'.arg = EmptyFile) => UNCHANGED histVars
     /\ (lastOp'.op = "upload" /\ lastOp'.arg = EmptyFile)
          => /\ history' = <<>>
             /\ currentIndex' = -1
             /\ created' = created
             /\ revoked' = revokeAll(revoked, history)]_vars

\* a remote edit has just resolved to an empty File on a stack of two entries
C9_Witness ==
  /\ lastOp = Op("remoteResolved", EmptyFile, FALSE)
  /\ Len(history) = 2
  /\ currentIndex = 1
  /\ created = 2

\* a step that ran undo(): the Undo button, or Reset Adjustments during a preview
UndoStep ==
  \/ lastOp'.op = "undo"
  \/ lastOp'.op = "resetAdjustment" /\ lastOp'.flag

\* C10: undo moves the cursor down by exactly one when cursor > 0, redo moves it
\* up by exactly one when cursor < length-1, otherwise each is a no-op; neither
\* changes the sequence nor creates or releases a handle.
C10_UndoRedo ==
  [][/\ UndoStep
          => /\ currentIndex' = IF currentIndex > 0 THEN currentIndex - 1 ELSE currentIndex
             /\ UNCHANGED <<history, created, revoked>>
     /\ lastOp'.op = "redo"
          => /\ currentIndex' = IF currentIndex < Len(history) - 1
                                THEN currentIndex + 1 ELSE currentIndex
             /\ UNCHANGED <<history, created, revoked>>]_vars

\* undo() was called with the cursor at 0 (Reset Adjustments during a preview
\* of the first entry) and left it there
C10_Witness ==
  /\ lastOp = Op("resetAdjustment", 0, TRUE)
  /\ currentIndex = 0
  /\ Len(history) = 2

\* C11: goTo(index) sets the cursor to index when 0 <= index < length and
\* leaves it unchanged for any other index; it never changes the sequence.
C11_GoToBounded ==
  [][lastOp'.op = "goTo"
      => /\ currentIndex' = IF 0 <= lastOp'.arg /\ lastOp'.arg < Len(history)
                            THEN lastOp'.arg ELSE currentIndex
         /\ UNCHANGED <<history, created, revoked>>]_vars

\* goToHistory was called with index = length on a stack of two entries and
\* left the cursor at 0
C11_Witness ==
  /\ lastOp = Op("goTo", 2, FALSE)
  /\ Len(history) = 2
  /\ currentIndex = 0

\* C12: reset releases the handle of every entry of the stack exactly once
\* (each of them had not been released before and has one release after),
\* releases no other handle, empties the sequence and sets the cursor to -1.
C12_ResetReleasesAll ==
  [][lastOp'.op = "uploadNew"
      => /\ history' = <<>>
         /\ currentIndex' = -1
         /\ created' = created
         /\ \A u \in 1..MaxUrls :
              revoked'[u] = IF Holders(u) # {} THEN 1 ELSE revoked[u]]_vars

\* Upload New has just reset a stack of two entries
C12_Witness ==
  /\ lastOp = Op("uploadNew", 2, FALSE)
  /\ history = <<>>
  /\ currentIndex = -1
  /\ created = 2
  /\ revoked[1] = 1
  /\ revoked[2] = 1

\* a restore that succeeded
RestoreStep == lastOp'.op = "restore" /\ lastOp'.flag

\* the entries of a session record that have bytes
Survivors(session) == SelectSeq(session.history, LAMBDA item : item.file # EmptyFile)

\* C13: a restore replaces the whole stack, releases every handle of the prior
\* stack and sets the cursor to the supplied index clamped into
\* [0, length-1] of the restored sequence, for every supplied index.
C13_RestoreClamps ==
  [][RestoreStep
      => /\ Len(history') = lastOp'.arg
         /\ Len(history') > 0
         /\ revoked' = revokeAll(revoked, history)
         /\ currentIndex' = Max(0, Min(lastOp'.session.currentIndex, Len(history') - 1))]_vars

\* C14: a restore drops every entry without bytes, keeps the others in their
\* order with freshly created handles, and leaves the cursor inside the
\* filtered sequence.
C14_RestoreFilters ==
  [][(lastOp'.op = "restore" /\ Survivors(lastOp'.session) # <<>>)
      => LET kept == Survivors(lastOp'.session)
         IN  /\ Len(history') = Len(kept)
             /\ \A i \in 1..Len(kept) :
                  /\ history'[i].id = kept[i].id
                  /\ history'[i].file = kept[i].file
                  /\ history'[i].thumbnailUrl = created + i
             /\ created' = created + Len(kept)
             /\ 0 <= currentIndex'
             /\ currentIndex' < Len(history')]_vars

C16_StackHandlesLive ==
  \A i \in 1..Len(history) : revoked[history[i].thumbnailUrl] = 0

\* an adjustment preview has replaced the second of two entries: its handle
\* was released and both entries of the stack are live
C16_Witness ==
  /\ lastOp.op = "workerMessage"
  /\ lastOp.flag
  /\ Len(history) = 2
  /\ currentIndex = 1
  /\ history[1].thumbnailUrl = 1
  /\ history[2].thumbnailUrl = 3
  /\ revoked[2] = 1

C18_WorkerFailure ==
  [][(lastOp'.op = "workerMessage" /\ lastOp'.arg = adjustmentRequestIdRef /\ ~lastOp'.flag)
      => /\ UNCHANGED histVars
         /\ error' # "none"
         /\ ~isLoading']_vars

\* the worker has failed on request 1, the latest
C18_Witness ==
  /\ lastOp = Op("workerMessage", 1, FALSE)
  /\ adjustmentRequestIdRef = 1
  /\ error = "adjust"
  /\ ~isLoading
  /\ Len(history) = 1

\* a message that lacks the pixel buffer, the parameters or a sequence number
Malformed(data) == ~data.imageData \/ ~data.params \/ data.requestId = NoRequestId

\* C19: a worker request that lacks the pixel buffer, the parameter set or a
\* sequence number gets a failure response with an error, the request's
\* sequence number (-1 when it has none) and no result buffer; handling that
\* response does not change the history stack.
C19_MalformedRequest ==
  [][(lastOp'.op = "postToWorker" /\ Malformed(lastOp'.data))
      => /\ lastOp'.response.error
         /\ ~lastOp'.response.resultImageData
         /\ lastOp'.response.requestId =
              IF lastOp'.data.requestId = NoRequestId THEN -1 ELSE lastOp'.data.requestId
         /\ UNCHANGED histVars]_vars

\* a request without pixel buffer but with the latest sequence number was
\* answered with a failure, which set the error and left a stack of one entry
C19_Witness ==
  /\ lastOp.op = "postToWorker"
  /\ ~lastOp.data.imageData
  /\ lastOp.data.requestId = adjustmentRequestIdRef
  /\ lastOp.response.error
  /\ error = "adjust"
  /\ Len(history) = 1

\* C20: while a remote edit is pending the busy indicator is set; no other
\* event clears it before that request resolves or fails.
C20_BusyWhilePending == remotePending # <<>> => isLoading

\* the scale a wheel event with this deltaY asks for, before clamping
Candidate(deltaY) == RatAdd(zoomPanState.scale, Rat(-deltaY, 200))

\* C21: the viewport scale is at least 0.2 and at most 5 in every reachable
\* state, whatever wheel and pointer events were handled
C21_ScaleInRange ==
  /\ 5 * zoomPanState.scale.n >= zoomPanState.scale.d
  /\ zoomPanState.scale.n <= 5 * zoomPanState.scale.d

\* a wheel event asked for scale 6 and the scale stopped at 5
C21_Witness ==
  /\ lastOp.op = "wheel" /\ lastOp.flag /\ lastOp.arg = -1000
  /\ zoomPanState.scale = Num(5)

\* the image point under view coordinate m is the same before and after the
\* step: (m - newOffset) / newScale = (m - oldOffset) / oldScale
SamePoint(m, oldOffset, newOffset) ==
  RatMul(RatSub(Num(m), newOffset), zoomPanState.scale)
    = RatMul(RatSub(Num(m), oldOffset), zoomPanState'.scale)

\* C22: a wheel event that changes the scale moves each offset so that the
\* image point under the pointer stays where it is; from scale 1 and offset
\* (0,0), a wheel at (50,50) that gives scale 2 gives offset (-50,-50)
C22_ZoomKeepsPoint ==
  [][lastOp'.op = "wheel" /\ zoomPanState'.scale # zoomPanState.scale
     => /\ SamePoint(lastOp'.mouse[1], zoomPanState.offsetX, zoomPanState'.offsetX)
        /\ SamePoint(lastOp'.mouse[2], zoomPanState.offsetY, zoomPanState'.offsetY)
        /\ (zoomPanState = InitialZoomPanState /\ lastOp'.mouse = <<50, 50>>
            /\ zoomPanState'.scale = Num(2))
           => zoomPanState'.offsetX = Num(-50) /\ zoomPanState'.offsetY = Num(-50)]_vars

\* the example of the claim has happened
C22_Witness ==
  /\ lastOp.op = "wheel" /\ lastOp.arg = -200 /\ lastOp.mouse = <<50, 50>>
  /\ zoomPanState = [scale |-> Num(2), offsetX |-> Num(-50), offsetY |-> Num(-50)]

\* C23: a wheel event whose candidate scale clamps to the current scale (zoom in
\* at the maximum, zoom out at the minimum, or no delta) leaves scale and both
\* offsets as they were
C23_ClampedWheelNoChange ==
  [][lastOp'.op = "wheel"
     /\ \/ lastOp'.arg = 0
        \/ zoomPanState.scale = MAX_SCALE /\ RatLt(MAX_SCALE, Candidate(lastOp'.arg))
        \/ zoomPanState.scale = MIN_SCALE /\ RatLt(Candidate(lastOp'.arg), MIN_SCALE)
     => zoomPanState' = zoomPanState]_vars

\* a wheel event zoomed in at the maximum scale, away from the origin of the
\* view (the scale can only have been 5 before it)
C23_Witness ==
  /\ lastOp.op = "wheel" /\ lastOp.flag /\ lastOp.arg = -200
  /\ lastOp.mouse = <<121, 31>>
  /\ zoomPanState.scale = MAX_SCALE

\* C24: the pan machine starts idle; a pointer-down while enabled starts
\* panning and records the anchor; a pointer-move changes the offset only while
\* panning, by pointer - anchor, and then moves the anchor; after any
\* pointer-up or pointer-leave the machine is idle
C24_PanMachine ==
  /\ ~isPanningRef
  /\ [][/\ lastOp'.op = "mouseDown" /\ lastOp'.flag
           => isPanningRef' /\ lastMousePosRef' = lastOp'.client
        /\ lastOp'.op = "mouseMove"
           => IF zoomPanState' # zoomPanState \/ lastMousePosRef' # lastMousePosRef
              THEN /\ isPanningRef
                   /\ zoomPanState'.offsetX
                        = RatAdd(zoomPanState.offsetX, Num(lastOp'.client[1] - lastMousePosRef[1]))
                   /\ zoomPanState'.offsetY
                        = RatAdd(zoomPanState.offsetY, Num(lastOp'.client[2] - lastMousePosRef[2]))
                   /\ lastMousePosRef' = lastOp'.client
              ELSE TRUE
        /\ lastOp'.op \in {"mouseUp", "mouseLeave"} => ~isPanningRef']_vars

\* the image coordinate of view coordinate v lies outside [0, size]
Outside(v, offset, scale, size) ==
  LET n == (v * offset.d - offset.n) * scale.d
      d == offset.d * scale.n
  IN  n < 0 \/ n > size * d

\* round(((v - offset) / scale) * natural / displayed), a half rounded up
Rescaled(v, offset, scale, natural, displayed) ==
  LET n == (v * offset.d - offset.n) * scale.d * natural
      d == offset.d * scale.n * displayed
  IN  (2 * n + d) \div (2 * d)

\* C25: a click in the retouch tab on a loaded image maps view coordinate v to
\* (v - offset) / scale; outside [0,width] x [0,height] both hotspots stay as
\* they are, otherwise the edit hotspot is that coordinate times native size /
\* displayed size, rounded
C25_ClickMapping ==
  [][lastOp'.op = "click" /\ lastOp'.flag
     => LET v == lastOp'.view
            img == lastOp'.img
            z == zoomPanState
        IN  IF \/ Outside(v[1], z.offsetX, z.scale, img.width)
               \/ Outside(v[2], z.offsetY, z.scale, img.height)
            THEN UNCHANGED <<displayHotspot, editHotspot>>
            ELSE /\ editHotspot'
                      = <<Rescaled(v[1], z.offsetX, z.scale, img.naturalWidth, img.width),
                          Rescaled(v[2], z.offsetY, z.scale, img.naturalHeight, img.height)>>
                 /\ displayHotspot'[1].n * z.scale.n * z.offsetX.d
                      = (v[1] * z.offsetX.d - z.offsetX.n) * z.scale.d * displayHotspot'[1].d
                 /\ displayHotspot'[2].n * z.scale.n * z.offsetY.d
                      = (v[2] * z.offsetY.d - z.offsetY.n) * z.scale.d * displayHotspot'[2].d]_vars

\* a click left of the image was rejected and the hotspot of an earlier click,
\* made at scale 2 and rounded from (213.75, 101.25), is still there
C25_Witness ==
  /\ lastOp.op = "click" /\ lastOp.flag /\ lastOp.view = <<0, 0>>
  /\ zoomPanState.scale = Num(2) /\ zoomPanState.offsetX = Num(71)
  /\ editHotspot = <<214, 101>>

\* the values the effect of useAutoSave depends on
SavedState == <<history, currentIndex, zoomPanState>>

\* C26: a change of history, cursor or viewport cancels the pending save timer
\* and starts one, so at most one timer is pending and it carries the state
\* after the last change; when it fires it is the only write of the burst (no
\* timer is left) and it hands over the state after the last change
C26_Debounce ==
  /\ [](/\ Cardinality(timers) <= 1
        /\ \A t \in timers : <<t.history, t.currentIndex, t.zoomPanState>> = SavedState)
  /\ [][/\ SavedState' # SavedState
           => timers' = {Timer(timeoutRef', history', currentIndex', zoomPanState')}
        /\ lastOp'.op = "save"
           => /\ timers' = {}
              /\ written'.session.present = (Len(history) > 0)
              /\ written'.session.present
                 => /\ written'.session.currentIndex = currentIndex
                    /\ written'.session.zoomPanState = zoomPanState]_vars

\* an upload and two wheel events came before any write: one timer is
\* pending, with the state after the second wheel event
C26_Witness ==
  /\ written.op = "none"
  /\ viewEvents = 2
  /\ zoomPanState.scale = Num(3)
  /\ \E t \in timers : Len(t.history) = 1 /\ t.zoomPanState.scale = Num(3)

\* C27: saveSession stores the record when given a snapshot with entries and
\* deletes the stored record when given null or a snapshot without entries; a
\* failure of the store is swallowed, and no call changes in-memory state
C27_Persist ==
  [][lastOp'.op = "saveSession"
     => /\ IF lastOp'.flag THEN stored' = stored
           ELSE IF written'.session.present /\ Len(written'.session.history) > 0
                THEN stored'
                ELSE ~stored'
        /\ UNCHANGED <<histVars, viewVars, workerVars, isLoading, error,
                       isPreviewingAdjustments, adjustmentParams, remotePending,
                       cropPending, hasCheckedSession, sessionToRestore, timers,
                       timeoutRef>>]_vars

\* a stored record was deleted by a call with a snapshot that has no entries
C27_Witness ==
  /\ lastOp.op = "saveSession" /\ ~lastOp.flag
  /\ written.session.present /\ written.session.history = <<>>
  /\ written.before /\ ~stored

\* C28: a stored session record is deleted only when the user declines
\* restoration, the record is structurally invalid, restoration fails, or the
\* history is empty after having held an image; the auto-save does not delete
\* it while the restore prompt is waiting
C28_DeletedOnlyWhenDue ==
  [][/\ stored /\ ~stored'
        => \/ lastOp'.op = "declineRestore"
           \/ /\ lastOp'.op = "checkSession"
              /\ lastOp'.savedSession.present /\ ~lastOp'.savedSession.wellFormed
           \/ lastOp'.op = "restore" /\ ~lastOp'.flag
           \/ lastOp'.op = "save" /\ history = <<>> /\ created > 0
     /\ ModalShown /\ lastOp'.op = "save" => stored' = stored]_vars

C30_SnapshotProjection ==
  [][lastOp'.op = "save" /\ written'.session.present
     => LET r == written'.session
        IN  /\ DOMAIN r = {"present", "history", "currentIndex", "zoomPanState"}
            /\ Len(r.history) = Len(history)
            /\ \A i \in 1..Len(history) :
                 /\ DOMAIN r.history[i] = {"id", "file"}
                 /\ r.history[i].id = history[i].id
                 /\ r.history[i].file = history[i].file
            /\ r.currentIndex = currentIndex
            /\ r.zoomPanState = zoomPanState]_vars

\* a restored stack of two entries, zoomed and undone to its first entry, was
\* written as a record of two entries with cursor 0 and scale 2
C30_Witness ==
  /\ lastOp.op = "save" /\ written.op = "put"
  /\ Len(written.session.history) = 2
  /\ written.session.currentIndex = 0
  /\ written.session.zoomPanState.scale = Num(2)

\* ---- the adjustment pipeline ----

\* C31: with all seven intensities zero the buffer the worker posts equals the
\* buffer it received, byte for byte
C31_IdentityParams ==
  (lastOp.op = "pixels" /\ workerParams = IdentityParams) => workerResult = workerData

\* two pixels, one dark and bluish with alpha 0, went through the pipeline
\* with the identity parameters and came back as they were
C31_Witness ==
  /\ lastOp.op = "pixels" /\ workerParams = IdentityParams
  /\ workerData = <<255, 0, 0, 77, 1, 100, 200, 0>>
  /\ workerResult = <<255, 0, 0, 77, 1, 100, 200, 0>>

\* C32: for any parameters and any buffer the result has the length of the
\* input, and each alpha byte (every fourth) is the input's
C32_AlphaUntouched ==
  lastOp.op = "pixels"
    => /\ Len(workerResult) = Len(workerData)
       /\ \A i \in 1..Len(workerData) : i % 4 = 0 => workerResult[i] = workerData[i]

\* brightness 50 changed the colour bytes of both pixels and left the alpha
\* bytes 77 and 0 alone
C32_Witness ==
  /\ lastOp.op = "pixels" /\ workerParams.brightness = 50
  /\ workerData = <<255, 0, 0, 77, 1, 100, 200, 0>>
  /\ workerResult = <<255, 50, 50, 77, 51, 150, 250, 0>>

\* C33: every adjustment request of a preview session is computed from the
\* snapshot that was current when the session began, so that a committed
\* preview is the pipeline applied once to that base
C33_SameBase ==
  [][lastOp'.op = "adjust" => posted'[lastOp'.arg].base = preview'.base]_vars

\* C34: a reset while a preview is active makes the snapshot that was current
\* before the session began the current one again
C34_ResetRestoresBase ==
  [][lastOp'.op = "resetAdjustment" /\ lastOp'.flag
     => /\ hasCurrentEntry(history', currentIndex')
        /\ history'[currentIndex' + 1].id = preview.base]_vars

\* C35: a response that is put into history after a reset belongs to a request
\* issued after that reset
C35_NoCommitAcrossReset ==
  [][lastOp'.op = "workerMessage" /\ lastOp'.flag => lastOp'.arg > preview.resetRef]_vars

\* a request issued before a reset was answered after it, and the answer was
\* dropped: the history is the one the reset left
C35_Witness ==
  /\ lastOp.op = "workerMessage" /\ ~lastOp.flag
  /\ preview.resetRef > 0 /\ lastOp.arg < preview.resetRef
  /\ lastOp.arg \in DOMAIN posted
  /\ fileContent = <<>>

\* C36: a response that is put into history after upload-new or an upload
\* belongs to a request issued after it
C36_NoCommitAcrossClear ==
  [][lastOp'.op = "workerMessage" /\ lastOp'.flag => lastOp'.arg > preview.clearRef]_vars

\* ---- uploads, restore and the viewport ----

\* C37: an upload of an image, whatever the state before, leaves a history of
\* exactly that image with the cursor on it, nothing to undo or redo, every
\* handle of the stack before released, no hotspot and all intensities zero
C37_UploadStartsOver ==
  [][lastOp'.op = "upload" /\ lastOp'.arg = ImageFile
     => /\ Len(history') = 1
        /\ history'[1].file = ImageFile
        /\ history'[1].thumbnailUrl = created'
        /\ revoked'[created'] = 0
        /\ currentIndex' = 0
        /\ ~canUndo(currentIndex') /\ ~canRedo(history', currentIndex')
        /\ \A i \in 1..Len(history) : revoked'[history[i].thumbnailUrl] >= 1
        /\ displayHotspot' = NoHotspot /\ editHotspot' = NoHotspot
        /\ adjustmentParams' = 0]_vars

\* an image was uploaded from the start screen while the stack still held an
\* entry; the stack is now the uploaded image alone
C37_Witness ==
  /\ lastOp.op = "upload" /\ lastOp.arg = ImageFile /\ lastOp.flag
  /\ Len(history) = 1 /\ currentIndex = 0
  /\ \E u \in DOMAIN revoked : u # history[1].thumbnailUrl /\ revoked[u] >= 1

\* C38: when the snapshot that was current in the saved session passes the
\* filter of the restore, it is the current snapshot after the restore
C38_RestoreKeepsCurrent ==
  [][LET session == lastOp'.session
     IN  (/\ lastOp'.op = "restore" /\ lastOp'.flag
          /\ hasCurrentEntry(session.history, session.currentIndex)
          /\ ~invalidFile(session.history[session.currentIndex + 1].file))
         => /\ hasCurrentEntry(history', currentIndex')
            /\ history'[currentIndex' + 1].id
                 = session.history[session.currentIndex + 1].id]_vars

\* C39: while the active tab is the crop tab (the viewport disabled), no
\* wheel, pointer-down, pointer-move, pointer-up or pointer-leave event
\* changes the scale or the offset
C39_DisabledViewportFrozen ==
  [][(/\ activeTab = "crop"
      /\ lastOp'.op \in {"wheel", "mouseDown", "mouseMove", "mouseUp", "mouseLeave"})
     => zoomPanState' = zoomPanState]_vars

\* on the crop tab a wheel event that would zoom in came in at scale 2 and
\* the scale is still 2
C39_Witness ==
  /\ lastOp.op = "wheel" /\ lastOp.arg = -200 /\ ~lastOp.flag
  /\ activeTab = "crop"
  /\ zoomPanState.scale = Num(2)

\* C40: the marker of an accepted click at view coordinate v is drawn at v,
\* and under every later viewport the marker is drawn where the click mapping
\* takes back to the hotspot: a pan or a zoom leaves the hotspot as it is and
\* (marker - offset) / scale is the hotspot
C40_MarkerInverse ==
  [][/\ (/\ lastOp'.op = "click" /\ lastOp'.flag
         /\ ~Outside(lastOp'.view[1], zoomPanState.offsetX, zoomPanState.scale,
                     lastOp'.img.width)
         /\ ~Outside(lastOp'.view[2], zoomPanState.offsetY, zoomPanState.scale,
                     lastOp'.img.height))
        => markerPosition(displayHotspot', zoomPanState')
             = <<Num(lastOp'.view[1]), Num(lastOp'.view[2])>>
     /\ lastOp'.op \in {"wheel", "mouseMove"} => displayHotspot' = displayHotspot
     /\ displayHotspot' # NoHotspot
        => LET m == markerPosition(displayHotspot', zoomPanState')
           IN  /\ RatDiv(RatSub(m[1], zoomPanState'.offsetX), zoomPanState'.scale)
                    = displayHotspot'[1]
               /\ RatDiv(RatSub(m[2], zoomPanState'.offsetY), zoomPanState'.scale)
                    = displayHotspot'[2]]_vars

\* a click at (50, 50) under the initial viewport, then a zoom to scale 2
\* about the corner of the wrapper: the marker is drawn at (100, 100)
C40_Witness ==
  /\ lastOp.op = "wheel" /\ lastOp.flag
  /\ zoomPanState.scale = Num(2)
  /\ displayHotspot = <<Num(50), Num(50)>>
  /\ markerPosition(displayHotspot, zoomPanState) = <<Num(100), Num(100)>>
====
